---- MODULE Spec2Model ----
(***************************************************************************)
(* Model of box_node/App.js: mirroring of Box folder trees into a local    *)
(* directory tree, one retry loop per root folder id.                      *)
(*                                                                         *)
(* JavaScript runs one callback at a time.  Every action below is one      *)
(* callback of the event loop (the settlement of one remote request, the   *)
(* firing of one timer, the end of one piped copy) together with all the   *)
(* promise reactions (microtasks) that it triggers before the next         *)
(* callback can run.                                                       *)
(***************************************************************************)
EXTENDS Integers, Sequences, FiniteSets, Bags, TLC

VARIABLES
    pc,               \* per root: position of the chain of lines 139-171
    attempt,          \* per root: number of retryDownload calls made so far
    listReqs,         \* per root: client.folders.get requests in flight
    streamReqs,       \* per root: client.files.getReadStream requests in flight
    downloadedFiles,  \* per root: the array handed to retryDownload
    dirs,             \* local filesystem: directories that exist
    files,            \* local filesystem: files created by createWriteStream
    copying,          \* pipes stream.pipe(output) that have not ended yet
    ended,            \* local paths on which a piped copy has ended
    logs,             \* per root: the bag of lines appended by log()
    errors,           \* per root: lines appended by logError()
    faults,           \* per root: remote calls that have failed so far
    timer,            \* per root: delay (ms) of the pending setTimeout
    caught,           \* per root: errors seen by the catch of line 152
    opens,            \* per root and file id: getReadStream calls issued
    attemptOpens,     \* per root: file ids opened by the current attempt
    ledgerAtStart,    \* per root: ids in downloadedFiles when the attempt began
    rejected,         \* per root: status codes of the requests that rejected
    rootInfoError,    \* per root: the error caught at line 168
    mkdirThrew,       \* per root: a mkdirSync of line 118 has thrown
    pg                \* a single listing of one large folder (PageSpec)

vars == <<pc, attempt, listReqs, streamReqs, downloadedFiles, dirs, files,
          copying, ended, logs, errors, faults, timer, caught, opens,
          attemptOpens, ledgerAtStart, rejected,
          rootInfoError, mkdirThrew, pg>>

syncVars == <<pc, attempt, listReqs, streamReqs, downloadedFiles, dirs, files,
              copying, ended, logs, errors, faults, timer, caught, opens,
              attemptOpens, ledgerAtStart, rejected,
              rootInfoError, mkdirThrew>>

(***************************************************************************)
(* Bounds of the model.                                                    *)
(***************************************************************************)
\* remote calls that may fail, over all roots together
MaxFaults == 2
\* largest number of children of the folder listed under PageSpec
MaxChildren == 2001

(***************************************************************************)
(* The remote side: two root folders given on the command line.            *)
(***************************************************************************)
rootFolderIds == {"R1", "R2"}

Entry(id, name, type) == [id |-> id, name |-> name, type |-> type]

\* item_collection.entries of every folder, in the order the API returns them
Entries(folderId) ==
    CASE folderId = "R1" -> <<Entry("f1", "a.txt", "file"),
                              Entry("A", "sub", "folder")>>
      [] folderId = "A"  -> <<Entry("f2", "b.txt", "file")>>
      [] folderId = "R2" -> <<Entry("w1", "link", "web_link"),
                              Entry("g1", "c.txt", "file")>>

\* rootFolderInfo.name
FolderName(rootFolderId) ==
    CASE rootFolderId = "R1" -> "root"
      [] rootFolderId = "R2" -> "other"

Range(s) == {s[i] : i \in 1..Len(s)}

Min(a, b) == IF a < b THEN a ELSE b

(***************************************************************************)
(* Errors of the remote API: error.statusCode and                          *)
(* error.response.headers['retry-after'].  A header value is a string,     *)
(* modelled as the sequence of its characters.                             *)
(***************************************************************************)
NoHeader == [present |-> FALSE, value |-> <<>>]

Header(chars) == [present |-> TRUE, value |-> chars]

Headers ==
    {NoHeader, Header(<<>>), Header(<<"2">>), Header(<<"W", "e", "d">>),
     Header(<<"2", "1", "4", "7", "4", "8", "4">>)}

RemoteError(statusCode, retryAfter) ==
    [statusCode |-> statusCode, retryAfter |-> retryAfter]

RemoteErrors ==
    {RemoteError(429, h) : h \in Headers}
        \cup {RemoteError(500, NoHeader), RemoteError(500, Header(<<"2">>))}

NoError == RemoteError(0, NoHeader)

\* the error thrown by fs.mkdirSync: it has no statusCode
FsError == RemoteError(-1, NoHeader)

\* JavaScript truthiness of headers['retry-after']: undefined and "" are falsy
Truthy(h) == h.present /\ h.value # <<>>

DigitValue ==
    [c \in {"0", "1", "2", "3", "4", "5", "6", "7", "8", "9"} |->
        CASE c = "0" -> 0 [] c = "1" -> 1 [] c = "2" -> 2 [] c = "3" -> 3
          [] c = "4" -> 4 [] c = "5" -> 5 [] c = "6" -> 6 [] c = "7" -> 7
          [] c = "8" -> 8 [] c = "9" -> 9]

IsDigit(c) == c \in DOMAIN DigitValue

NaN == [isNaN |-> TRUE, n |-> 0]

Num(n) == [isNaN |-> FALSE, n |-> n]

RECURSIVE SkipSpaces(_)
SkipSpaces(s) ==
    IF s # <<>> /\ Head(s) = " " THEN SkipSpaces(Tail(s)) ELSE s

RECURSIVE Digits(_, _)
\* value of the longest prefix of decimal digits of s, after the digits acc
Digits(s, acc) ==
    IF s # <<>> /\ IsDigit(Head(s))
    THEN Digits(Tail(s), 10 * acc + DigitValue[Head(s)])
    ELSE acc

\* parseInt(string, 10): leading white space, an optional sign, then the
\* longest prefix of digits; NaN when there is no digit
ParseInt(chars) ==
    LET s == SkipSpaces(chars)
        neg == s # <<>> /\ Head(s) = "-"
        t == IF s # <<>> /\ Head(s) \in {"-", "+"} THEN Tail(s) ELSE s
    IN  IF t = <<>> \/ ~IsDigit(Head(t))
        THEN NaN
        ELSE Num(IF neg THEN 0 - Digits(t, 0) ELSE Digits(t, 0))

\* the longest delay of a timer, in ms: 2^31 - 1
TIMEOUT_MAX == 2147483647

\* setTimeout(callback, retryAfter * 1000): a delay that is NaN, below 1 or
\* above TIMEOUT_MAX is set to 1 ms
TimeoutDelay(retryAfter) ==
    IF \/ retryAfter.isNaN
       \/ retryAfter.n < 1
       \/ retryAfter.n > TIMEOUT_MAX \div 1000
    THEN 1
    ELSE retryAfter.n * 1000

\* the test of line 153
IsRateLimit(error) == error.statusCode = 429 /\ Truthy(error.retryAfter)

(***************************************************************************)
(* Listing: fetchFolderInfo and fetchAllFolderItems.                       *)
(***************************************************************************)
\* limit of fetchFolderInfo as passed by fetchItemsBatch
PageSize == 1000

\* client.folders.get(folderId, {limit, offset}): the entries of one page
Page(entries, offset, limit) ==
    SubSeq(entries, offset + 1, Min(offset + limit, Len(entries)))

\* mutant: the listing stops only at an empty batch
IsLastPageWhenEmpty(items) == Len(items) = 0

\* the test of line 93, negated: no further batch is fetched
IsLastPage(items) == Len(items) # PageSize

\* the then-callback of fetchItemsBatch(offset), lines 89-96
FetchItemsBatch(entries, offset, allItems) ==
    LET items == Page(entries, offset, PageSize)
    IN  [allItems |-> allItems \o items,
         more |-> ~IsLastPage(items),
         offset |-> offset + PageSize]

(***************************************************************************)
(* Local paths: a path is the sequence of its segments below               *)
(* destinationPath.                                                        *)
(***************************************************************************)
\* mutant: the folder chain is dropped from the local path
JoinPathNameOnly(localFolderPath, name) == <<name>>

\* path.join(localFolderPath, name)
JoinPath(localFolderPath, name) == Append(localFolderPath, name)

\* mutant: only the last element of the ledger is compared
IncludesLast(ledger, id) == ledger # <<>> /\ ledger[Len(ledger)] = id

\* downloadedFiles.includes(file.id)
Includes(ledger, id) == \E i \in 1..Len(ledger) : ledger[i] = id

\* the directory that holds the path
Parent(path) == SubSeq(path, 1, Len(path) - 1)

\* mutant: no directory is ever found existing
ExistsSyncNever(ds, path) == FALSE

\* fs.existsSync(path), ds being the directories that exist
ExistsSync(ds, path) == path \in ds

\* fs.mkdirSync(path) throws when the path exists already (EEXIST) and when
\* the directory that is to hold it does not exist (ENOENT)
MkdirSyncThrows(ds, path) ==
    path \in ds \/ (Len(path) > 1 /\ Parent(path) \notin ds)

\* fs.mkdirSync(path) when it does not throw
MkdirSync(ds, path) == ds \cup {path}

\* fs.mkdirSync(path, {recursive: true}): the missing directories on the way
\* are created as well, and an existing path is no error
MkdirSyncRecursive(ds, path) ==
    ds \cup {SubSeq(path, 1, k) : k \in 1..Len(path)}

RECURSIVE MapSubfolders(_, _, _)
\* lines 115-119 of folders.map for the subfolders from the i-th on, in
\* order: the directories afterwards, how many subfolders were handled
\* before mkdirSync threw, and whether it threw
MapSubfolders(ds, paths, i) ==
    IF i > Len(paths)
    THEN [dirs |-> ds, walked |-> Len(paths), threw |-> FALSE]
    ELSE IF ExistsSync(ds, paths[i])
    THEN MapSubfolders(ds, paths, i + 1)
    ELSE IF MkdirSyncThrows(ds, paths[i])
    THEN [dirs |-> ds, walked |-> i - 1, threw |-> TRUE]
    ELSE MapSubfolders(MkdirSync(ds, paths[i]), paths, i + 1)

\* mutant: the id is not added to the ledger
PushNothing(ledger, id) == ledger

\* mutant: the array is replaced by one that holds only the new id
PushReplace(ledger, id) == <<id>>

\* downloadedFiles.push(file.id)
Push(ledger, id) == Append(ledger, id)

\* ids of the entries of type file of the modelled trees
FileIds == {"f1", "f2", "g1"}

ListReq(att, folderId, path) ==
    [att |-> att, folderId |-> folderId, path |-> path,
     offset |-> 0, allItems |-> <<>>]

StreamReq(att, file, path) == [att |-> att, file |-> file, path |-> path]

\* the idle value of pg, used while the synchronizer runs
PgIdle == [n |-> 0, offset |-> 0, allItems |-> <<>>, requests |-> <<>>,
           state |-> "idle"]

SyncInit ==
    /\ pc = [r \in rootFolderIds |-> "fetchRoot"]
    /\ attempt = [r \in rootFolderIds |-> 0]
    /\ listReqs = [r \in rootFolderIds |-> {}]
    /\ streamReqs = [r \in rootFolderIds |-> {}]
    /\ downloadedFiles = [r \in rootFolderIds |-> <<>>]
    /\ dirs = {}
    /\ files = {}
    /\ copying = {}
    /\ ended = {}
    /\ logs = [r \in rootFolderIds |-> EmptyBag]
    /\ errors = [r \in rootFolderIds |-> <<>>]
    /\ faults = [r \in rootFolderIds |-> 0]
    /\ timer = [r \in rootFolderIds |-> 0]
    /\ caught = [r \in rootFolderIds |-> NoError]
    /\ opens = [r \in rootFolderIds |-> [id \in FileIds |-> 0]]
    /\ attemptOpens = [r \in rootFolderIds |-> {}]
    /\ ledgerAtStart = [r \in rootFolderIds |-> {}]
    /\ rejected = [r \in rootFolderIds |-> {}]
    /\ rootInfoError = [r \in rootFolderIds |-> NoError]
    /\ mkdirThrew = [r \in rootFolderIds |-> FALSE]

Init == SyncInit /\ pg = PgIdle

(***************************************************************************)
(* The retry controller: then and catch of retryDownload, lines 149-163.   *)
(***************************************************************************)
LogLine(msg, id) == [msg |-> msg, id |-> id]

\* log(message): one more copy of the line in the activity log; the order of
\* the lines in the file is not kept
Log(lines, line) == lines (+) SetToBag({line})

\* mutant: the transfers of the files are not waited for
PendingListsOnly(L, S, att) == \E q \in L : q.att = att

\* some request of attempt att of the root is still in flight
Pending(L, S, att) ==
    (\E q \in L : q.att = att) \/ (\E q \in S : q.att = att)

\* mutant: the roots share one chain, which a failure of any root rejects
AwaitedUnlessAnyFailed(r, att) ==
    /\ pc[r] = "attempting"
    /\ att = attempt[r]
    /\ \A other \in rootFolderIds : pc[other] # "failed"

\* mutant: the outcome of the attempt is taken although the root has settled
AwaitedAnyTime(r, att) == att = attempt[r]

\* the promise of downloadFilesRecursively(rootFolderId, ...) of the attempt
\* is still pending: it is the attempt retryDownload waits for
Awaited(r, att) == pc[r] = "attempting" /\ att = attempt[r]

\* retryDownload(downloadedFiles): line 148 issues the first listing request
RetryDownload(r) ==
    /\ attempt' = [attempt EXCEPT ![r] = @ + 1]
    /\ listReqs' = [listReqs EXCEPT
            ![r] = @ \cup {ListReq(attempt[r] + 1, r, <<FolderName(r)>>)}]
    /\ attemptOpens' = [attemptOpens EXCEPT ![r] = {}]
    /\ ledgerAtStart' = [ledgerAtStart EXCEPT ![r] = Range(downloadedFiles[r])]
    /\ pc' = [pc EXCEPT ![r] = "attempting"]

\* the catch of lines 152-163 for the error that rejected the attempt
Catch(r, error) ==
    /\ caught' = [caught EXCEPT ![r] = error]
    /\ IF IsRateLimit(error)
       THEN /\ errors' = [errors EXCEPT
                    ![r] = Append(@, LogLine("Rate Limit Exceeded", r))]
            /\ logs' = [logs EXCEPT
                    ![r] = Log(@, LogLine("Rate limit exceeded", r))]
            /\ timer' = [timer EXCEPT
                    ![r] = TimeoutDelay(ParseInt(error.retryAfter.value))]
            /\ pc' = [pc EXCEPT ![r] = "waiting"]
       ELSE /\ errors' = [errors EXCEPT
                    ![r] = Append(@, LogLine("Error downloading files", r))]
            /\ pc' = [pc EXCEPT ![r] = "failed"]
            /\ UNCHANGED <<logs, timer>>

\* one more remote call may fail
MayFail == faults["R1"] + faults["R2"] < MaxFaults

(***************************************************************************)
(* Lines 139-171: the chain started for every root folder id.              *)
(***************************************************************************)
\* fetchFolderInfo(rootFolderId) resolves: lines 141-166; mkdirSync of the
\* root directory, then retryDownload([]) with the root's own empty array
RootInfoOk(r) ==
    /\ pc[r] = "fetchRoot"
    /\ dirs' = MkdirSyncRecursive(dirs, <<FolderName(r)>>)
    /\ RetryDownload(r)
    /\ UNCHANGED <<streamReqs, downloadedFiles, files, copying, ended, logs,
                   errors, faults, timer, caught, opens, rejected,
                   rootInfoError, mkdirThrew, pg>>

\* fetchFolderInfo(rootFolderId) rejects: the catch of lines 168-170
RootInfoFail(r) ==
    /\ pc[r] = "fetchRoot"
    /\ MayFail
    /\ \E error \in RemoteErrors :
        /\ faults' = [faults EXCEPT ![r] = @ + 1]
        /\ rejected' = [rejected EXCEPT ![r] = @ \cup {error.statusCode}]
        /\ rootInfoError' = [rootInfoError EXCEPT ![r] = error]
        /\ errors' = [errors EXCEPT
                ![r] = Append(@, LogLine("Error fetching root folder info", r))]
        /\ pc' = [pc EXCEPT ![r] = "failed"]
    /\ UNCHANGED <<attempt, listReqs, streamReqs, downloadedFiles, dirs,
                   files, copying, ended, logs, timer, caught, opens,
                   attemptOpens, ledgerAtStart, mkdirThrew, pg>>

(***************************************************************************)
(* downloadFilesRecursively, lines 69-126.                                 *)
(***************************************************************************)
IsFolder(item) == item.type = "folder"

IsFile(item) == item.type = "file"

\* a request of fetchItemsBatch resolves: lines 89-96 and, after the last
\* batch, the callback of lines 104-125
ListOk(r) ==
    \E q \in listReqs[r] :
        LET batch == FetchItemsBatch(Entries(q.folderId), q.offset, q.allItems)
            allItems == batch.allItems
            folders == SelectSeq(allItems, IsFolder)
            allFiles == SelectSeq(allItems, IsFile)
            IsNew(file) == ~Includes(downloadedFiles[r], file.id)
            newFiles == SelectSeq(allFiles, IsNew)
            \* downloadFiles(newFiles): line 72 tests the ledger once more
            started == {StreamReq(q.att, newFiles[i], q.path) :
                            i \in {j \in 1..Len(newFiles) : IsNew(newFiles[j])}}
            SubPath(i) == JoinPath(q.path, folders[i].name)
            \* lines 115-122: the directory of every subfolder, then its walk;
            \* a throw of mkdirSync ends the callback
            sub == MapSubfolders(dirs,
                        [i \in 1..Len(folders) |-> SubPath(i)], 1)
            walks == {ListReq(q.att, folders[i].id, SubPath(i)) :
                            i \in 1..sub.walked}
            threw == sub.threw /\ Awaited(r, q.att)
            L2 == (listReqs[r] \ {q}) \cup walks
            S2 == streamReqs[r] \cup started
            line == LogLine("Downloading files from folder", q.folderId)
            done == /\ Awaited(r, q.att)
                    /\ ~sub.threw
                    /\ ~Pending(L2, S2, q.att)
        IN  IF batch.more
            THEN /\ listReqs' = [listReqs EXCEPT
                        ![r] = (@ \ {q}) \cup
                               {[q EXCEPT !.offset = batch.offset,
                                          !.allItems = allItems]}]
                 /\ UNCHANGED <<pc, attempt, streamReqs, downloadedFiles, dirs,
                                files, copying, ended, logs, errors, faults,
                                timer, caught, opens, attemptOpens,
                                ledgerAtStart, rejected,
                                rootInfoError, mkdirThrew, pg>>
            ELSE /\ listReqs' = [listReqs EXCEPT ![r] = L2]
                 /\ streamReqs' = [streamReqs EXCEPT ![r] = S2]
                 /\ dirs' = sub.dirs
                 /\ mkdirThrew' = [mkdirThrew EXCEPT ![r] = @ \/ sub.threw]
                 /\ opens' = [opens EXCEPT ![r] =
                        [id \in FileIds |->
                            @[id] + Cardinality({s \in started :
                                                    s.file.id = id})]]
                 /\ attemptOpens' = [attemptOpens EXCEPT ![r] =
                        IF q.att = attempt[r]
                        THEN @ \cup {s.file.id : s \in started}
                        ELSE @]
                 /\ logs' = [logs EXCEPT ![r] =
                        IF done
                        THEN Log(Log(@, line),
                                 LogLine("Download completed successfully", r))
                        ELSE Log(@, line)]
                 \* the error thrown by mkdirSync rejects the attempt: it has
                 \* no statusCode, so the catch takes the branch of line 161
                 /\ IF threw
                    THEN /\ pc' = [pc EXCEPT ![r] = "failed"]
                         /\ caught' = [caught EXCEPT ![r] = FsError]
                         /\ errors' = [errors EXCEPT ![r] = Append(@,
                                LogLine("Error downloading files", r))]
                    ELSE /\ pc' = [pc EXCEPT
                                ![r] = IF done THEN "completed" ELSE @]
                         /\ UNCHANGED <<caught, errors>>
                 /\ UNCHANGED <<attempt, downloadedFiles, files, copying, ended,
                                faults, timer, ledgerAtStart, rejected,
                                rootInfoError, pg>>

\* a request of fetchItemsBatch rejects
ListFail(r) ==
    /\ MayFail
    /\ \E q \in listReqs[r], error \in RemoteErrors :
        /\ listReqs' = [listReqs EXCEPT ![r] = @ \ {q}]
        /\ faults' = [faults EXCEPT ![r] = @ + 1]
        /\ rejected' = [rejected EXCEPT ![r] = @ \cup {error.statusCode}]
        /\ IF Awaited(r, q.att)
           THEN Catch(r, error)
           ELSE UNCHANGED <<pc, errors, logs, timer, caught>>
    /\ UNCHANGED <<attempt, streamReqs, downloadedFiles, dirs, files, copying,
                   ended, opens, attemptOpens, ledgerAtStart, rootInfoError,
                   mkdirThrew, pg>>

\* client.files.getReadStream resolves: the callback of lines 73-77
StreamOk(r) ==
    \E q \in streamReqs[r] :
        LET output == JoinPath(q.path, q.file.name)
            S2 == streamReqs[r] \ {q}
            done == Awaited(r, q.att) /\ ~Pending(listReqs[r], S2, q.att)
        IN  /\ streamReqs' = [streamReqs EXCEPT ![r] = S2]
            /\ files' = files \cup {output}
            /\ copying' = copying \cup
                    {[root |-> r, att |-> q.att, id |-> q.file.id,
                      path |-> output]}
            /\ downloadedFiles' = [downloadedFiles EXCEPT
                    ![r] = Push(@, q.file.id)]
            /\ logs' = [logs EXCEPT ![r] =
                    IF done
                    THEN Log(@, LogLine("Download completed successfully", r))
                    ELSE @]
            /\ pc' = [pc EXCEPT ![r] = IF done THEN "completed" ELSE @]
            /\ UNCHANGED <<attempt, listReqs, dirs, ended, errors, faults,
                           timer, caught, opens, attemptOpens, ledgerAtStart,
                           rejected, rootInfoError, mkdirThrew, pg>>

\* mutant: the id is marked although the read stream could not be opened
StreamFailMarks(r) ==
    /\ MayFail
    /\ \E q \in streamReqs[r], error \in RemoteErrors :
        /\ streamReqs' = [streamReqs EXCEPT ![r] = @ \ {q}]
        /\ downloadedFiles' = [downloadedFiles EXCEPT
                ![r] = Push(@, q.file.id)]
        /\ faults' = [faults EXCEPT ![r] = @ + 1]
        /\ rejected' = [rejected EXCEPT ![r] = @ \cup {error.statusCode}]
        /\ IF Awaited(r, q.att)
           THEN Catch(r, error)
           ELSE UNCHANGED <<pc, errors, logs, timer, caught>>
    /\ UNCHANGED <<attempt, listReqs, dirs, files, copying, ended, opens,
                   attemptOpens, ledgerAtStart, rootInfoError, mkdirThrew,
                   pg>>

\* client.files.getReadStream rejects
StreamFail(r) ==
    /\ MayFail
    /\ \E q \in streamReqs[r], error \in RemoteErrors :
        /\ streamReqs' = [streamReqs EXCEPT ![r] = @ \ {q}]
        /\ faults' = [faults EXCEPT ![r] = @ + 1]
        /\ rejected' = [rejected EXCEPT ![r] = @ \cup {error.statusCode}]
        /\ IF Awaited(r, q.att)
           THEN Catch(r, error)
           ELSE UNCHANGED <<pc, errors, logs, timer, caught>>
    /\ UNCHANGED <<attempt, listReqs, downloadedFiles, dirs, files, copying,
                   ended, opens, attemptOpens, ledgerAtStart, rootInfoError,
                   mkdirThrew, pg>>

\* stream.pipe(output) reaches the end of the stream
CopyEnd ==
    \E c \in copying :
        /\ copying' = copying \ {c}
        /\ ended' = ended \cup {c.path}
        /\ UNCHANGED <<pc, attempt, listReqs, streamReqs, downloadedFiles,
                       dirs, files, logs, errors, faults, timer, caught,
                       opens, attemptOpens, ledgerAtStart, rejected,
                       rootInfoError, mkdirThrew, pg>>

\* the timer of handleRateLimitError fires: line 158 calls retryDownload
TimerFires(r) ==
    /\ pc[r] = "waiting"
    /\ timer' = [timer EXCEPT ![r] = 0]
    /\ caught' = [caught EXCEPT ![r] = NoError]
    /\ RetryDownload(r)
    /\ UNCHANGED <<streamReqs, downloadedFiles, dirs, files, copying, ended,
                   logs, errors, faults, opens, rejected,
                   rootInfoError, mkdirThrew, pg>>

RootStep(r) ==
    \/ RootInfoOk(r)
    \/ RootInfoFail(r)
    \/ ListOk(r)
    \/ ListFail(r)
    \/ StreamOk(r)
    \/ StreamFail(r)
    \/ TimerFires(r)

Next == (\E r \in rootFolderIds : RootStep(r)) \/ CopyEnd

Spec == Init /\ [][Next]_vars

(***************************************************************************)
(* One listing of a folder with pg.n children, fetched batch by batch      *)
(* (fetchAllFolderItems, lines 84-101).  The children are numbered 1..n.   *)
(***************************************************************************)
PgEntries(n) == [i \in 1..n |-> i]

PageInit ==
    /\ SyncInit
    /\ pg \in {[n |-> n, offset |-> 0, allItems |-> <<>>, requests |-> <<0>>,
                state |-> "pending"] : n \in 0..MaxChildren}

\* the request of fetchItemsBatch(pg.offset) resolves: lines 89-96, 100
PgBatchOk ==
    /\ pg.state = "pending"
    /\ LET batch == FetchItemsBatch(PgEntries(pg.n), pg.offset, pg.allItems)
       IN  pg' = IF batch.more
                 THEN [pg EXCEPT !.offset = batch.offset,
                                 !.allItems = batch.allItems,
                                 !.requests = Append(@, batch.offset)]
                 ELSE [pg EXCEPT !.allItems = batch.allItems,
                                 !.state = "done"]
    /\ UNCHANGED syncVars

\* the request of fetchItemsBatch(pg.offset) rejects: the listing rejects
PgBatchFail ==
    /\ pg.state = "pending"
    /\ pg' = [pg EXCEPT !.state = "failed"]
    /\ UNCHANGED syncVars

PageNext == PgBatchOk \/ PgBatchFail

PageSpec == PageInit /\ [][PageNext]_vars

\* every request settles and every timer fires, and the event loop runs the
\* callback of each: the enabled callbacks of every root are eventually run
FairSpec == Spec /\ \A r \in rootFolderIds : WF_vars(RootStep(r))

(***************************************************************************)
(* The remote trees as the claims see them.                                *)
(***************************************************************************)
EntriesOfType(folderId, type) ==
    {e \in Range(Entries(folderId)) : e.type = type}

RECURSIVE FoldersBelow(_, _)
FoldersBelow(folderId, path) ==
    {path} \cup UNION {FoldersBelow(e.id, Append(path, e.name)) :
                            e \in EntriesOfType(folderId, "folder")}

RECURSIVE FilesBelow(_, _)
FilesBelow(folderId, path) ==
    {[id |-> e.id, path |-> Append(path, e.name)] :
            e \in EntriesOfType(folderId, "file")}
        \cup UNION {FilesBelow(e.id, Append(path, e.name)) :
                            e \in EntriesOfType(folderId, "folder")}

RemoteFolders(r) == FoldersBelow(r, <<FolderName(r)>>)

RemoteFiles(r) == FilesBelow(r, <<FolderName(r)>>)

RemoteFileIds(r) == {f.id : f \in RemoteFiles(r)}

Under(paths, r) == {p \in paths : p[1] = FolderName(r)}

(***************************************************************************)
(* Claims.                                                                 *)
(***************************************************************************)

\* a rate-limit signal as the specification defines it (4.5): 429 and a
\* retry-after header that parses to a number
RateLimitSignal(error) ==
    /\ error.statusCode = 429
    /\ error.retryAfter.present
    /\ ~ParseInt(error.retryAfter.value).isNaN

\* C1: no file id has its read stream opened more than once during the
\* lifetime of its root's ledger, within one attempt or across attempts.
C1_NoFileTransferredTwice ==
    \A r \in rootFolderIds : \A id \in FileIds : opens[r][id] <= 1

\* C2: an attempt that follows a rate-limited attempt and completes has
\* opened the read streams of exactly the files of the tree that were not in
\* the ledger when it began (none of the ledgered ones, all of the others).
C2_ResumeTransfersExactlyTheRest ==
    \A r \in rootFolderIds :
        (attempt[r] >= 2 /\ pc[r] = "completed")
            => attemptOpens[r] = RemoteFileIds(r) \ ledgerAtStart[r]

\* C3: an error caught by the retry controller leads to the wait for a new
\* attempt only if it is a 429 with a parseable retry-after header; every
\* other caught error makes the root Failed.
C3_RetryOnlyOnParseableRateLimit ==
    \A r \in rootFolderIds :
        caught[r] # NoError =>
            IF RateLimitSignal(caught[r])
            THEN pc[r] = "waiting"
            ELSE pc[r] = "failed"

TerminalErrorLogged(r) ==
    \E i \in 1..Len(errors[r]) :
        errors[r][i].msg \in {"Error downloading files",
                              "Error fetching root folder info"}

\* C4: once a request of a root has rejected with a status other than 429,
\* the root is Failed and the failure is in the error log.
C4_HardFailureSurfaced ==
    \A r \in rootFolderIds :
        (\E code \in rejected[r] : code # 429)
            => (pc[r] = "failed" /\ TerminalErrorLogged(r))

\* everything the run of one root reads and writes
RootState(r) ==
    <<pc[r], attempt[r], listReqs[r], streamReqs[r], downloadedFiles[r],
      logs[r], errors[r], timer[r]>>

C6_FullLedgerRunOpensNothing ==
    \A r \in rootFolderIds :
        (attempt[r] >= 1 /\ RemoteFileIds(r) \subseteq ledgerAtStart[r]) =>
            /\ attemptOpens[r] = {}
            /\ \A q \in streamReqs[r] : q.att # attempt[r]
            /\ \A c \in copying : c.root = r => c.att # attempt[r]
            /\ Range(downloadedFiles[r]) = ledgerAtStart[r]
            /\ pc[r] = "attempting" =>
                    \E q \in listReqs[r] : q.att = attempt[r]

\* C6: such an attempt has completed
C6_Witness ==
    \E r \in rootFolderIds :
        /\ pc[r] = "completed"
        /\ RemoteFileIds(r) # {}
        /\ RemoteFileIds(r) \subseteq ledgerAtStart[r]
        /\ attemptOpens[r] = {}

\* C7: the batches of one listing are requested at offsets 0, P, 2P, ...;
\* the listing of a folder with n children ends after n \div P + 1 requests
\* with all children in order; after a failed request no other is made.
C7_Pagination ==
    /\ \A i \in 1..Len(pg.requests) : pg.requests[i] = (i - 1) * PageSize
    /\ pg.state \in {"pending", "failed"} =>
            /\ pg.offset <= pg.n
            /\ pg.requests[Len(pg.requests)] = pg.offset
            /\ pg.allItems = SubSeq(PgEntries(pg.n), 1, pg.offset)
    /\ pg.state = "done" =>
            /\ Len(pg.requests) = (pg.n \div PageSize) + 1
            /\ pg.allItems = PgEntries(pg.n)

\* C7: a folder of exactly P children has been listed with two requests
C7_Witness ==
    /\ pg.state = "done"
    /\ pg.n = PageSize
    /\ pg.requests = <<0, PageSize>>

\* C8: when a root has completed, the local directories below its root
\* directory are exactly the paths of its remote folders and the local files
\* are exactly the paths of its remote files.
C8_DirectoryMirroring ==
    \A r \in rootFolderIds :
        pc[r] = "completed" =>
            /\ Under(dirs, r) = RemoteFolders(r)
            /\ Under(files, r) = {f.path : f \in RemoteFiles(r)}

\* C8: the root with a subfolder has completed at its first attempt
C8_Witness ==
    /\ pc["R1"] = "completed"
    /\ attempt["R1"] = 1
    /\ <<"root", "sub", "b.txt">> \in files

\* C9 as claimed: an id is in the ledger exactly when a copy of the file to
\* its local path has reached the end of the stream.
C9_LedgerIffCopyFinished ==
    \A r \in rootFolderIds : \A f \in RemoteFiles(r) :
        Includes(downloadedFiles[r], f.id) <=> f.path \in ended

\* C9 as amended: an id is in the ledger exactly when the read stream of the
\* file has been opened and piped into a write stream at its local path at
\* least once (the copy has been started; it may still be in progress).
C9_LedgerIffCopyStarted ==
    \A r \in rootFolderIds : \A f \in RemoteFiles(r) :
        Includes(downloadedFiles[r], f.id) <=> f.path \in files

\* C9: an id is in the ledger while the only copy of its file is in progress
C9_Witness ==
    \E c \in copying :
        /\ Includes(downloadedFiles[c.root], c.id)
        /\ c.path \in files
        /\ c.path \notin ended

\* C10: when a root has completed, every file of its tree has been opened,
\* is in the ledger and has a write stream created at its mirrored path.
C10_CompletedMeansAllTransferred ==
    \A r \in rootFolderIds :
        pc[r] = "completed" =>
            \A f \in RemoteFiles(r) :
                /\ opens[r][f.id] >= 1
                /\ Includes(downloadedFiles[r], f.id)
                /\ f.path \in files

\* C10: a root has completed after a rate-limited attempt
C10_Witness ==
    \E r \in rootFolderIds :
        /\ pc[r] = "completed"
        /\ attempt[r] = 2
        /\ Cardinality(RemoteFiles(r)) = 2

\* C11: a root is never Failed because of a rate-limit signal (429 with a
\* retry-after header that parses), whichever remote call of the root's run
\* raised it, the folder-info fetch that starts the run included.
C11_RateLimitNeverTerminal ==
    \A r \in rootFolderIds :
        pc[r] = "failed" =>
            /\ ~RateLimitSignal(rootInfoError[r])
            /\ ~RateLimitSignal(caught[r])

\* a failure other than a rate-limit signal may have occurred in the run of
\* the root: some request failed, and it was not the folder-info fetch
\* failing with a rate-limit signal
OtherFailurePossible(r) ==
    faults[r] > 0 /\ ~RateLimitSignal(rootInfoError[r])

\* C12: a root that is rate-limited finitely many times, and meets no other
\* failure, eventually reaches Completed.
C12_RateLimitedRootCompletes ==
    \A r \in rootFolderIds :
        <>(pc[r] = "completed" \/ OtherFailurePossible(r))

\* C13: while a root waits after a caught rate-limit signal with retry-after
\* value r, the timer that starts its next attempt runs for at least r
\* seconds.
C13_BackoffAtLeastRetryAfter ==
    \A r \in rootFolderIds :
        (pc[r] = "waiting" /\ RateLimitSignal(caught[r]))
            => timer[r] \div 1000 >= ParseInt(caught[r].retryAfter.value).n

\* C14: when the sync call of an attempt has reported its result to the
\* retry controller (the root is Completed, waiting or Failed), no listing
\* and no stream-open request that the call started is still in flight.
C14_SettledMeansNothingInFlight ==
    \A r \in rootFolderIds :
        pc[r] \in {"completed", "waiting", "failed"}
            => ~Pending(listReqs[r], streamReqs[r], attempt[r])

IsPrefix(s, t) == Len(s) <= Len(t) /\ SubSeq(t, 1, Len(s)) = s

\* C15: every step keeps the ledger of every root as a prefix of the ledger
\* after the step: an id once marked stays marked, a mark never removes or
\* replaces another, and a retry goes on with the ledger as it was.
C15_LedgerOnlyGrows ==
    [][\A r \in rootFolderIds :
            IsPrefix(downloadedFiles[r], downloadedFiles'[r])]_vars

\* a retry started with a ledger that was not empty, and further ids were
\* marked beside the ones it held
C15_Witness ==
    \E r \in rootFolderIds :
        /\ attempt[r] >= 2
        /\ ledgerAtStart[r] # {}
        /\ Range(downloadedFiles[r]) \ ledgerAtStart[r] # {}
        /\ ledgerAtStart[r] \subseteq Range(downloadedFiles[r])

\* the number of times the id is in the ledger
Marks(ledger, id) == Cardinality({i \in 1..Len(ledger) : ledger[i] = id})

\* the stream-open requests for the id that have not settled yet
OpensInFlight(r, id) == {q \in streamReqs[r] : q.file.id = id}

\* C16: an id is added to the ledger only by the step in which a stream-open
\* request for that file succeeds, and no more often than such requests
\* were made and are no longer pending; a step in which a request fails
\* leaves the ledger as it is.
C16_MarkAfterSuccess ==
    /\ [](\A r \in rootFolderIds : \A id \in FileIds :
            Marks(downloadedFiles[r], id)
                + Cardinality(OpensInFlight(r, id)) <= opens[r][id])
    /\ [][\A r \in rootFolderIds :
            downloadedFiles'[r] # downloadedFiles[r] =>
                /\ faults' = faults
                /\ \E q \in streamReqs[r] \ streamReqs'[r] :
                    /\ downloadedFiles'[r]
                            = Append(downloadedFiles[r], q.file.id)
                    /\ JoinPath(q.path, q.file.name) \in files']_vars

\* the first stream open of a file failed and left the file unmarked, and a
\* later attempt has asked for the stream of the file again
C16_Witness ==
    \E r \in rootFolderIds : \E id \in FileIds :
        /\ opens[r][id] = 2
        /\ faults[r] >= 1
        /\ Marks(downloadedFiles[r], id) = 0
        /\ \E q \in streamReqs[r] :
            OpensInFlight(r, id) = {q} /\ q.att = attempt[r]

\* C17: no two copies in progress write to the same local path.
C17_NoTwoWritersOfOnePath ==
    \A c1 \in copying : \A c2 \in copying :
        c1 # c2 => c1.path # c2.path

\* the terminal outcomes logged for the root: lines of line 150 in the
\* activity log, lines of lines 161 and 169 in the error log
CompletedLines(r) ==
    CopiesIn(LogLine("Download completed successfully", r), logs[r])

FailedLines(r) ==
    Cardinality({i \in 1..Len(errors[r]) :
        errors[r][i].msg \in {"Error downloading files",
                              "Error fetching root folder info"}})

\* C18: a root logs at most one terminal outcome, the one of the state it is
\* in; a root that is Completed or Failed stays so and starts no further
\* attempt.
C18_TerminalAndExclusive ==
    /\ [](\A r \in rootFolderIds :
            /\ CompletedLines(r) = (IF pc[r] = "completed" THEN 1 ELSE 0)
            /\ FailedLines(r) = (IF pc[r] = "failed" THEN 1 ELSE 0))
    /\ [][\A r \in rootFolderIds :
            pc[r] \in {"completed", "failed"} =>
                pc'[r] = pc[r] /\ attempt'[r] = attempt[r]]_vars

\* one root is Completed, another is Failed after a retry, and every request
\* of the failed root has settled since
C18_Witness ==
    \E r1 \in rootFolderIds : \E r2 \in rootFolderIds :
        /\ pc[r1] = "completed"
        /\ pc[r2] = "failed"
        /\ attempt[r2] >= 2
        /\ Len(downloadedFiles[r2]) >= 1
        /\ listReqs[r2] = {} /\ streamReqs[r2] = {}

\* C19: in a step taken while a root waits out a backoff or is Failed, no
\* listing or stream-open request is issued for the root, no local file
\* write is started for it and its ledger does not change.
C19_NothingRunsWhileWaitingOrFailed ==
    [][\A r \in rootFolderIds :
            (pc[r] \in {"waiting", "failed"} /\ pc'[r] = pc[r]) =>
                /\ listReqs'[r] \subseteq listReqs[r]
                /\ streamReqs'[r] \subseteq streamReqs[r]
                /\ opens'[r] = opens[r]
                /\ {c \in copying' : c.root = r} \subseteq copying
                /\ downloadedFiles'[r] = downloadedFiles[r]]_vars

\* C20: the directory of a root exists from its first attempt on; every
\* folder being listed, every file whose stream is being opened and every
\* local file has its directory in place; every directory lies in an
\* existing one; and mkdirSync has never thrown, so a directory found
\* existing was not created again.
C20_DirectoryBeforeWrite ==
    /\ \A r \in rootFolderIds :
        /\ attempt[r] >= 1 => <<FolderName(r)>> \in dirs
        /\ \A q \in listReqs[r] \cup streamReqs[r] : q.path \in dirs
        /\ ~mkdirThrew[r]
    /\ \A f \in files : Parent(f) \in dirs
    /\ \A d \in dirs : Len(d) > 1 => Parent(d) \in dirs

\* a retry walks a subfolder whose directory an earlier attempt created
C20_Witness ==
    \E r \in rootFolderIds : \E q \in listReqs[r] :
        /\ q.att >= 2
        /\ q.att = attempt[r]
        /\ Len(q.path) > 1
        /\ Under(files, r) # {}

====
